---- MODULE Spec2Model ----
(***************************************************************************)
(* Session manager of the DaVinci Resolve adapter (src/resolve_api.py,     *)
(* class ResolveAPI, and the hot_reload tool of src/server.py).            *)
(*                                                                         *)
(* The session is the set of handles the ResolveAPI object holds.  The     *)
(* external application is a second piece of state, ext, which the user    *)
(* of the application changes between operations.  Every method is a pure  *)
(* operator from (session, external state) to an outcome record holding    *)
(* the session it leaves, what it returned, whether an exception left it,  *)
(* and what it did on the way; one action per method applies it.           *)
(*                                                                         *)
(* Handles: 0 is None.  The application, project-manager, media-storage    *)
(* and Fusion handles are 1 when held.  A project handle is the number of  *)
(* the project it refers to, a media-pool handle the number of the project *)
(* whose pool it is, a timeline handle the number of the project whose     *)
(* current timeline it is.  A return value of -1 stands for "no value".    *)
(***************************************************************************)
EXTENDS Integers, FiniteSets, Sequences, TLC

\* Number of projects of the external application's database.
MaxProj == 2
\* How many of the external calls misbehave at the same time.
MaxFaults == 1

Projects == 1..MaxProj

\* The dependent handles of the session, in the order refresh assigns them.
AllDeps == {"project_manager", "current_project", "media_storage", "fusion", "media_pool"}

----------------------------------------------------------------------------
(* The external application.                                               *)

\* An external call and a way it misbehaves.  "conn" is the discovery and
\* import of the scripting module and scriptapp("Resolve"); "pm" is
\* GetProjectManager, "cp" GetCurrentProject, "ms" GetMediaStorage, "fu"
\* Fusion, "mp" GetMediaPool, "tl" GetCurrentTimeline and the timeline probe.
FaultPairs ==
    {<<"conn", "nopath">>, <<"conn", "importerror">>, <<"conn", "none">>,
     <<"pm", "none">>, <<"pm", "raise">>,
     <<"cp", "raise">>,
     <<"ms", "none">>, <<"ms", "raise">>,
     <<"fu", "none">>, <<"fu", "raise">>,
     <<"mp", "none">>, <<"mp", "raise">>,
     <<"tl", "broken">>, <<"tl", "raise">>}

\* At most one way of misbehaving for each call.
Consistent(F) == \A x \in F : \A y \in F : (x[1] = y[1]) => (x = y)

RECURSIVE FaultSets(_)
FaultSets(k) ==
    IF k = 0 THEN {{}}
    ELSE LET smaller == FaultSets(k - 1)
         IN  smaller \cup {F \in {G \cup {x} : G \in smaller, x \in FaultPairs} : Consistent(F)}

ExtStates ==
    [curProj : 0..MaxProj, tlOpen : BOOLEAN, faults : FaultSets(MaxFaults)]

\* The external states one change away from e: another project (or none) is
\* open, the current timeline is opened or closed, or one call starts or
\* stops misbehaving.
ExtNeighbours(e) ==
    {[e EXCEPT !.curProj = p] : p \in (0..MaxProj) \ {e.curProj}}
    \cup {[e EXCEPT !.tlOpen = ~e.tlOpen]}
    \cup {[e EXCEPT !.faults = e.faults \ {x}] : x \in e.faults}
    \cup {[e EXCEPT !.faults = e.faults \cup {x}] :
             x \in {y \in FaultPairs \ e.faults :
                       /\ Cardinality(e.faults) < MaxFaults
                       /\ Consistent(e.faults \cup {y})}}

\* How the call c behaves in the external state e.
Mode(e, c) ==
    IF \E x \in e.faults : x[1] = c
    THEN (CHOOSE x \in e.faults : x[1] = c)[2]
    ELSE "ok"

\* project.GetName(): the probe of a project handle.  The application has
\* one project open at a time: a handle to the open project answers, a handle
\* to any other project is stale and raises.
ProbeProject(p, e) == p = e.curProj

\* media_pool.GetRootFolder(): the probe of a media-pool handle.
ProbeMediaPool(m, e) == m = e.curProj

\* project.GetCurrentTimeline(): -1 when the call raises, 0 for None.
GetCurrentTimeline(p, e) ==
    IF p # e.curProj \/ Mode(e, "tl") = "raise" THEN -1
    ELSE IF ~e.tlOpen THEN 0
    ELSE p

\* timeline.GetName(): the probe of a timeline handle.
ProbeTimeline(t, e) == t = e.curProj /\ e.tlOpen /\ Mode(e, "tl") = "ok"

----------------------------------------------------------------------------
(* The session and the outcome of a method.                                *)

NullSession ==
    [resolve |-> 0, project_manager |-> 0, current_project |-> 0,
     media_storage |-> 0, fusion |-> 0, media_pool |-> 0]

\* The outcome of a method: the session s and external state e it leaves,
\* the value it returned, whether it raised, how many times refresh() and
\* _connect_to_resolve() were entered, which dependent fields it assigned,
\* how many times it asked the project for the timeline, whether the first
\* timeline probe raised, the text a tool of the server answers with, the
\* outcomes of the calls of the method's own external operation (SaveProject,
\* ImportMedia, CreateEmptyTimeline) in the order they were made, and the
\* handle the last of them was made on.
Res(s, e, ret, raised, nRefresh, nConnect, written) ==
    [s |-> s, e |-> e, ret |-> ret, raised |-> raised, nRefresh |-> nRefresh,
     nConnect |-> nConnect, written |-> written, tlq |-> 0, tlFail |-> FALSE,
     text |-> "", tries |-> <<>>, used |-> 0]

----------------------------------------------------------------------------
(* ResolveAPI: connection and refresh.                                     *)

\* _find_scripting_module(): whether a path to the scripting module is found.
\* The answer depends on RESOLVE_SCRIPT_PATH, on the file system and on the
\* paths already appended to sys.path; all three are folded into the external
\* behaviour "nopath" of connecting, so any call may or may not find a path.
FindScriptingModule(e) == Mode(e, "conn") # "nopath"

\* The five assignments that derive the dependent handles from the
\* application handle, in the order of the code; an exception leaves the
\* assignments already made and skips the rest.  guardFusion is TRUE where
\* the call of Fusion() stands in a try block (refresh) and FALSE where it
\* does not (_connect_to_resolve).  Yields [s, raised, written].
DeriveHandles(s, e, guardFusion) ==
    IF Mode(e, "pm") = "raise"
    THEN [s |-> s, raised |-> TRUE, written |-> {}]
    ELSE
    LET s1 == [s EXCEPT !.project_manager = IF Mode(e, "pm") = "ok" THEN 1 ELSE 0]
    IN
    \* self.project_manager.GetCurrentProject() on None is an AttributeError
    IF s1.project_manager = 0 \/ Mode(e, "cp") = "raise"
    THEN [s |-> s1, raised |-> TRUE, written |-> {"project_manager"}]
    ELSE
    LET s2 == [s1 EXCEPT !.current_project = e.curProj]
    IN
    IF Mode(e, "ms") = "raise"
    THEN [s |-> s2, raised |-> TRUE, written |-> {"project_manager", "current_project"}]
    ELSE
    LET s3 == [s2 EXCEPT !.media_storage = IF Mode(e, "ms") = "ok" THEN 1 ELSE 0]
    IN
    IF Mode(e, "fu") = "raise" /\ ~guardFusion
    THEN [s |-> s3, raised |-> TRUE,
          written |-> {"project_manager", "current_project", "media_storage"}]
    ELSE
    LET s4 == [s3 EXCEPT !.fusion = IF Mode(e, "fu") = "ok" THEN 1 ELSE 0]
    IN
    IF s4.current_project # 0 /\ Mode(e, "mp") = "raise"
    THEN [s |-> s4, raised |-> TRUE, written |-> AllDeps \ {"media_pool"}]
    ELSE
    [s |-> [s4 EXCEPT !.media_pool =
                IF s4.current_project # 0 /\ Mode(e, "mp") = "ok"
                THEN s4.current_project ELSE 0],
     raised |-> FALSE, written |-> AllDeps]

\* The element of a set of one element.  Only({F(r) : r \in {x}}) is F
\* applied to the value of x, which is computed once.
Only(S) == CHOOSE y \in S : TRUE

\* The outcome of r1 followed by r2.
Then(r1, r2) ==
    [r2 EXCEPT !.nRefresh = r1.nRefresh + @,
               !.nConnect = r1.nConnect + @,
               !.written = r1.written \cup @]

\* _connect_to_resolve()
ConnectToResolve(s, e) ==
    IF ~FindScriptingModule(e)
    THEN Res(s, e, -1, FALSE, 0, 1, {})
    \* an ImportError sets self.resolve = None; scriptapp may return None
    ELSE IF Mode(e, "conn") # "ok"
    THEN Res([s EXCEPT !.resolve = 0], e, -1, FALSE, 0, 1, {})
    ELSE Only({Res(d.s, e, -1, d.raised, 0, 1, d.written) :
                  d \in {DeriveHandles([s EXCEPT !.resolve = 1], e, FALSE)}})

\* refresh() from the outcome c of its first two lines.
Rederive(c, e) ==
    IF c.raised \/ c.s.resolve = 0
    THEN [c EXCEPT !.nRefresh = 1]
    ELSE Only({Res(d.s, e, -1, d.raised, 1, c.nConnect, c.written \cup d.written) :
                  d \in {DeriveHandles(c.s, e, TRUE)}})

\* Refresh without the test "if not self.resolve": every refresh reconnects.
Refresh_AlwaysConnect(s, e) ==
    Only({Rederive(c, e) : c \in {ConnectToResolve(s, e)}})

\* refresh()
Refresh(s, e) ==
    Only({Rederive(c, e) : c \in {IF s.resolve = 0
                                   THEN ConnectToResolve(s, e)
                                   ELSE Res(s, e, -1, FALSE, 0, 0, {})}})

----------------------------------------------------------------------------
(* ResolveAPI: the ensure operations and the getters.                      *)

\* EnsureProject without the probe: every call refreshes.
EnsureProject_AlwaysRefresh(s, e) ==
    Only({IF r.raised THEN r
          ELSE [r EXCEPT !.ret = IF r.s.current_project # 0 THEN 1 ELSE 0] :
             r \in {Refresh(s, e)}})

\* _ensure_project(): 1 for True, 0 for False.
EnsureProject(s, e) ==
    IF s.current_project # 0 /\ ProbeProject(s.current_project, e)
    THEN Res(s, e, 1, FALSE, 0, 0, {})
    ELSE Only({IF r.raised THEN r
               ELSE [r EXCEPT !.ret = IF r.s.current_project # 0 THEN 1 ELSE 0] :
                  r \in {Refresh(s, e)}})

\* _ensure_media_pool(): 1 for True, 0 for False.
EnsureMediaPool(s, e) ==
    IF s.media_pool # 0 /\ ProbeMediaPool(s.media_pool, e)
    THEN Res(s, e, 1, FALSE, 0, 0, {})
    ELSE Only({IF r.raised THEN r
               ELSE [r EXCEPT !.ret = IF r.s.media_pool # 0 THEN 1 ELSE 0] :
                  r \in {Refresh(s, e)}})

\* TimelineRecover without the refresh: the except branch only falls through
\* to the second query of the timeline.
TimelineRecover_NoRefresh(p, e, failed) ==
    [Res(p.s, e, -1, FALSE, p.nRefresh, p.nConnect, p.written)
        EXCEPT !.tlq = 1, !.tlFail = failed]

\* _ensure_timeline(), the except branch: entered when the first query of
\* the timeline or its probe raised (failed), and not when the query
\* returned None.  p is the outcome of _ensure_project().
TimelineRecover(p, e, failed) ==
    Only({[r EXCEPT !.nRefresh = p.nRefresh + r.nRefresh,
                    !.nConnect = p.nConnect + r.nConnect,
                    !.written = p.written \cup r.written,
                    !.tlq = 1,
                    !.tlFail = failed] :
             r \in {IF failed THEN Refresh(p.s, e) ELSE Res(p.s, e, -1, FALSE, 0, 0, {})}})

\* _ensure_timeline(), its last three lines: the project is asked for the
\* timeline again and the answer is returned as it is.
TimelineRequery(r, e) ==
    IF r.raised THEN r
    ELSE IF r.s.current_project = 0 THEN [r EXCEPT !.ret = 0]
    ELSE IF GetCurrentTimeline(r.s.current_project, e) = -1
         THEN [r EXCEPT !.raised = TRUE, !.tlq = 2]
         ELSE [r EXCEPT !.ret = GetCurrentTimeline(r.s.current_project, e), !.tlq = 2]

\* _ensure_timeline() after _ensure_project() returned True with outcome p.
TimelineOfProject(p, e) ==
    IF /\ GetCurrentTimeline(p.s.current_project, e) > 0
       /\ ProbeTimeline(GetCurrentTimeline(p.s.current_project, e), e)
    THEN [p EXCEPT !.ret = GetCurrentTimeline(p.s.current_project, e), !.tlq = 1]
    ELSE TimelineRequery(
             TimelineRecover(p, e, GetCurrentTimeline(p.s.current_project, e) # 0), e)

\* _ensure_timeline(), which get_current_timeline() returns unchanged: the
\* timeline handle, 0 for None.
EnsureTimeline(s, e) ==
    Only({IF p.raised \/ p.ret = 0 THEN p ELSE TimelineOfProject(p, e) :
             p \in {EnsureProject(s, e)}})

\* get_current_project()
GetCurrentProject(s, e) ==
    Only({IF r.raised THEN r ELSE [r EXCEPT !.ret = r.s.current_project] :
             r \in {EnsureProject(s, e)}})

\* get_media_pool()
GetMediaPool(s, e) ==
    Only({IF r.raised THEN r ELSE [r EXCEPT !.ret = r.s.media_pool] :
             r \in {EnsureMediaPool(s, e)}})

----------------------------------------------------------------------------
(* ResolveAPI: project operations, and the hot_reload tool.                *)

\* LoadProject that also fetches the media storage again.
LoadProject_PatchesStorage(s, e, name, accepted) ==
    IF s.project_manager = 0 \/ ~accepted
    THEN Res(s, e, 0, FALSE, 0, 0, {})
    ELSE Res([s EXCEPT !.current_project = name,
                       !.media_pool = name,
                       !.media_storage = 1],
             [e EXCEPT !.curProj = name], 1, FALSE, 0, 0,
             {"current_project", "media_pool", "media_storage"})

\* load_project(project_name).  accepted: whether the application's
\* LoadProject returns a project (it then is the open project) or None.
LoadProject(s, e, name, accepted) ==
    IF s.project_manager = 0
    THEN Res(s, e, 0, FALSE, 0, 0, {})
    ELSE IF ~accepted
    THEN Res(s, e, 0, FALSE, 0, 0, {})
    ELSE
    LET e1 == [e EXCEPT !.curProj = name]
        s1 == [s EXCEPT !.current_project = name]
    IN
    IF Mode(e1, "mp") = "raise"
    THEN Res(s1, e1, -1, TRUE, 0, 0, {"current_project"})
    ELSE Res([s1 EXCEPT !.media_pool = IF Mode(e1, "mp") = "ok" THEN name ELSE 0],
             e1, 1, FALSE, 0, 0, {"current_project", "media_pool"})

\* create_project(project_name).  accepted: whether the application's
\* CreateProject returns the new project (it then is the open project).
CreateProject(s, e, name, accepted) ==
    IF s.project_manager = 0
    THEN Res(s, e, 0, FALSE, 0, 0, {})
    ELSE IF ~accepted
    THEN Res(s, e, 0, FALSE, 0, 0, {})
    ELSE
    Only({IF r.raised THEN r ELSE [r EXCEPT !.ret = 1] :
             r \in {Refresh(s, [e EXCEPT !.curProj = name])}})

\* What a call of SaveProject() does: it returns True, None or False, or it
\* raises.
SaveOutcomes == {"true", "none", "false", "raise"}

\* A test that takes only True for a success.
Saved_TrueOnly(outcome) == outcome = "true"

\* "result is not False" on an attempt that did not raise.
Saved(outcome) == outcome \in {"true", "none"}

\* save_project(), the retry: r is the outcome of the refresh.
SaveAgain(r, first, second) ==
    IF r.raised THEN [r EXCEPT !.tries = <<first>>]
    ELSE IF r.s.current_project = 0 THEN [r EXCEPT !.ret = 0, !.tries = <<first>>]
    ELSE [r EXCEPT !.ret = IF Saved(second) THEN 1 ELSE 0,
                   !.tries = <<first, second>>,
                   !.used = r.s.current_project]

\* save_project() from the outcome p of _ensure_project().
SaveFirst(p, first, second) ==
    IF p.raised \/ p.ret = 0 THEN p
    ELSE IF Saved(first)
    THEN [p EXCEPT !.ret = 1, !.tries = <<first>>, !.used = p.s.current_project]
    ELSE Only({SaveAgain(Then(p, r), first, second) : r \in {Refresh(p.s, p.e)}})

\* save_project(): 1 for True, 0 for False.  first and second are what the
\* application's SaveProject() does at the first and at the second call.
SaveProject(s, e, first, second) ==
    Only({SaveFirst(p, first, second) : p \in {EnsureProject(s, e)}})

\* add_items_to_media_pool() from the outcome r of its first two lines:
\* ImportMedia is called on the handle held, inside a try block.
ImportInto(r) ==
    IF r.raised THEN r
    ELSE IF r.s.media_pool = 0 THEN [r EXCEPT !.ret = 0]
    ELSE [r EXCEPT !.ret = IF ProbeMediaPool(r.s.media_pool, r.e) THEN 1 ELSE 0,
                   !.tries = <<IF ProbeMediaPool(r.s.media_pool, r.e) THEN "ok" ELSE "raise">>,
                   !.used = r.s.media_pool]

\* add_items_to_media_pool(file_paths): 1 for the items added, 0 for [].
AddItemsToMediaPool(s, e) ==
    Only({ImportInto(r) : r \in {IF s.media_pool = 0
                                 THEN Refresh(s, e)
                                 ELSE Res(s, e, -1, FALSE, 0, 0, {})}})

\* A reload that hands the old session over as it is.
HotReload_CarriesOver(s, e) == Res(s, e, 1, FALSE, 0, 0, {})

\* hot_reload() of the server: a new ResolveAPI object takes the old
\* application handle and no dependent handle, and is refreshed; it replaces
\* the old object unless the refresh raised.  1 for "Hot-reloaded", 0 for
\* "Hot-reload failed".
HotReload(s, e) ==
    Only({IF r.raised
          THEN [r EXCEPT !.s = s, !.ret = 0, !.raised = FALSE, !.written = {}]
          ELSE [r EXCEPT !.ret = 1] :
             r \in {Refresh([NullSession EXCEPT !.resolve = s.resolve], e)}})

----------------------------------------------------------------------------
(* The server: tools and resources.  A tool answers with a text; an       *)
(* exception that leaves it is raised = TRUE.                              *)

NotConnected == "Not connected to DaVinci Resolve."

\* is_connected()
IsConnected(s) == s.resolve # 0

\* The outcome r of the calls made, answered with the text msg.
Text(r, msg) == [r EXCEPT !.text = msg]

\* get_timeline_items() from the outcome r of get_current_timeline().
ItemsOf(r) ==
    IF r.raised \/ r.ret = 0 THEN r
    ELSE [r EXCEPT !.ret = IF ProbeTimeline(r.ret, r.e) THEN 1 ELSE 0]

\* ResolveAPI.get_timeline_items(): 1 when the track has items, 0 for [].
GetTimelineItems(s, e) == Only({ItemsOf(r) : r \in {EnsureTimeline(s, e)}})

\* The text for the items r that get_timeline_items() returned.
ItemsText(r) ==
    IF r.raised THEN r
    ELSE Text(r, IF r.ret = 1 THEN "Clip 1: ..." ELSE "No items")

\* The resource timeline://items.
Resource_timeline_items(s, e) == Only({ItemsText(r) : r \in {GetTimelineItems(s, e)}})

\* The text after refresh() left the outcome r.
RefreshedText(r) ==
    IF r.raised THEN r ELSE Text(r, "Resolve API state refreshed.")

\* The tool refresh without the test of is_connected().
Tool_refresh_Unguarded(s, e) == Only({RefreshedText(r) : r \in {Refresh(s, e)}})

\* The tool refresh.
Tool_refresh(s, e) ==
    IF ~IsConnected(s) THEN Text(Res(s, e, -1, FALSE, 0, 0, {}), NotConnected)
    ELSE Only({RefreshedText(r) : r \in {Refresh(s, e)}})

\* The text after the reload left the outcome r.
ReloadedText(r) ==
    Text(r, IF r.ret = 1 THEN "Hot-reloaded resolve_api.py." ELSE "Hot-reload failed")

\* The tool hot_reload.
Tool_hot_reload(s, e) == Only({ReloadedText(r) : r \in {HotReload(s, e)}})

\* The tool open_page; valid tells whether page_name is one of the six pages.
Tool_open_page(s, e, valid) ==
    IF ~valid THEN Text(Res(s, e, -1, FALSE, 0, 0, {}), "Invalid page.")
    ELSE IF ~IsConnected(s) THEN Text(Res(s, e, -1, FALSE, 0, 0, {}), NotConnected)
    ELSE Text(Res(s, e, 1, FALSE, 0, 0, {}), "Opened page.")

\* ResolveAPI.add_track(track_type), called with nargs arguments: 1 for
\* True, 0 for False.  The method takes one argument; a call with more
\* raises TypeError.
AddTrack(s, e, nargs) ==
    IF nargs > 1 THEN Res(s, e, -1, TRUE, 0, 0, {})
    ELSE Only({ItemsOf(r) : r \in {EnsureTimeline(s, e)}})

\* The text after add_track() left the outcome r.
TrackText(r) ==
    IF r.raised THEN r
    ELSE Text(r, IF r.ret = 1 THEN "Track added." ELSE "Failed to add track.")

\* The tool add_track, which calls add_track(track_type, sub_track_type).
Tool_add_track(s, e) ==
    IF ~IsConnected(s) THEN Text(Res(s, e, -1, FALSE, 0, 0, {}), NotConnected)
    ELSE Only({TrackText(r) : r \in {AddTrack(s, e, 2)}})

\* get_timeline_by_index() from the outcome p of _ensure_project().
TimelineAtIndex(p) ==
    IF p.raised \/ p.ret = 0 THEN p
    ELSE [p EXCEPT !.ret = IF p.e.tlOpen THEN p.s.current_project ELSE 0]

\* ResolveAPI.get_timeline_by_index(): the timeline handle, 0 for None.
GetTimelineByIndex(s, e) == Only({TimelineAtIndex(p) : p \in {EnsureProject(s, e)}})

\* delete_timeline() from the outcome m of _ensure_media_pool().
DeleteFromPool(m) ==
    IF m.raised \/ m.ret = 0 THEN m
    ELSE [m EXCEPT !.e = [m.e EXCEPT !.tlOpen = FALSE]]

\* ResolveAPI.delete_timeline(timeline): 1 for True, 0 for False.
DeleteTimeline(s, e) == Only({DeleteFromPool(m) : m \in {EnsureMediaPool(s, e)}})

\* The text after delete_timeline() left the outcome d.
DeletedText(d) ==
    IF d.raised THEN d
    ELSE Text(d, IF d.ret = 1 THEN "Timeline deleted." ELSE "Failed to delete.")

\* The tool delete_timeline from the outcome t of get_timeline_by_index():
\* timeline.GetName() is called outside any try block.
DeleteFound(t) ==
    IF t.raised THEN t
    ELSE IF t.ret = 0 THEN Text(t, "No timeline found at index.")
    ELSE IF ~ProbeTimeline(t.ret, t.e) THEN [t EXCEPT !.raised = TRUE]
    ELSE Only({DeletedText(Then(t, d)) : d \in {DeleteTimeline(t.s, t.e)}})

\* The tool delete_timeline.
Tool_delete_timeline(s, e) ==
    IF ~IsConnected(s) THEN Text(Res(s, e, -1, FALSE, 0, 0, {}), NotConnected)
    ELSE Only({DeleteFound(t) : t \in {GetTimelineByIndex(s, e)}})

----------------------------------------------------------------------------
(* The server: build_timeline_from_json.                                   *)
(*                                                                         *)
(* An entry of the clip list is [file, ok].  file is "null" when the entry *)
(* has no "file" or a null one, "empty" for the empty string, "found" when *)
(* the media pool has a clip of the file's name and "missing" when it has  *)
(* none.  ok tells whether the application carries out the placement made  *)
(* for the entry (InsertFusionCompositionIntoTimeline, AppendToTimeline).  *)

\* The longest clip list of a sequence description.
MaxEntries == 2

Entries ==
    {[file |-> "null", ok |-> TRUE], [file |-> "null", ok |-> FALSE],
     [file |-> "empty", ok |-> TRUE], [file |-> "missing", ok |-> TRUE],
     [file |-> "found", ok |-> TRUE], [file |-> "found", ok |-> FALSE]}

\* get_timeline_count() from the outcome p of _ensure_project(): a project
\* has its current timeline or none.
CountOf(p) ==
    IF p.raised THEN p
    ELSE [p EXCEPT !.ret = IF p.ret = 1 /\ p.e.tlOpen THEN 1 ELSE 0]

\* ResolveAPI.get_timeline_count()
GetTimelineCount(s, e) == Only({CountOf(p) : p \in {EnsureProject(s, e)}})

\* The loop "for i in range(1, count + 1): tl = get_timeline_by_index(i)"
\* from the outcome c of get_timeline_count().
LookUp(c) ==
    IF c.raised \/ c.ret = 0 THEN c
    ELSE Only({Then(c, t) : t \in {GetTimelineByIndex(c.s, c.e)}})

\* "if tl and tl.GetName() == name" on the outcome t of the loop: GetName is
\* called outside any try block; matches tells whether the timeline has the
\* name of the sequence description.
NameCheck(t, matches) ==
    IF t.raised \/ t.ret = 0 THEN t
    ELSE IF ~ProbeTimeline(t.ret, t.e) THEN [t EXCEPT !.raised = TRUE]
    ELSE IF matches THEN t
    ELSE [t EXCEPT !.ret = 0]

\* The timeline of the project that has the name looked for, 0 for none.
FindTimeline(s, e, matches) ==
    Only({NameCheck(t, matches) : t \in {Only({LookUp(c) : c \in {GetTimelineCount(s, e)}})}})

\* "resolve_api.delete_timeline(tl); break" on the timeline f found.
DropOld(f) ==
    IF f.raised \/ f.ret = 0 THEN f
    ELSE Only({Then(f, d) : d \in {DeleteTimeline(f.s, f.e)}})

\* create_timeline() from the outcome m of _ensure_media_pool(): accepted
\* tells whether CreateEmptyTimeline returns the new timeline, which then is
\* the current one, or None.
CreateInPool(m, accepted) ==
    IF m.raised \/ m.ret = 0 THEN m
    ELSE [m EXCEPT !.ret = IF accepted THEN 1 ELSE 0,
                   !.e = IF accepted THEN [m.e EXCEPT !.tlOpen = TRUE] ELSE m.e,
                   !.tries = <<IF accepted THEN "ok" ELSE "none">>,
                   !.used = m.s.media_pool]

\* ResolveAPI.create_timeline(timeline_name): 1 for True, 0 for False.
CreateTimeline(s, e, accepted) ==
    Only({CreateInPool(m, accepted) : m \in {EnsureMediaPool(s, e)}})

\* "resolve_api.create_timeline(name)" after the outcome a of the deletion:
\* the application refuses a second timeline of a name it has.
CreateFresh(a, same) ==
    IF a.raised THEN a
    ELSE Only({Then(a, c) : c \in {CreateTimeline(a.s, a.e, ~(same /\ a.e.tlOpen))}})

\* ResolveAPI.set_current_timeline(timeline) on the timeline f found.
SetCurrent(f) ==
    IF f.raised \/ f.ret = 0 THEN f
    ELSE Only({Then(f, p) : p \in {EnsureProject(f.s, f.e)}})

\* "Set it as current" after the outcome c of create_timeline().
MakeCurrent(c) ==
    Only({SetCurrent(f) : f \in {Only({Then(c, t) : t \in {FindTimeline(c.s, c.e, TRUE)}})}})

\* insert_fusion_composition() from the outcome r of get_current_timeline().
InsertInto(r, ok) ==
    IF r.raised \/ r.ret = 0 THEN r
    ELSE [r EXCEPT !.ret = IF ok /\ ProbeTimeline(r.ret, r.e) THEN 1 ELSE 0]

\* ResolveAPI.insert_fusion_composition(): 1 for True, 0 for False.
InsertFusionComposition(s, e, ok) ==
    Only({InsertInto(r, ok) : r \in {EnsureTimeline(s, e)}})

\* append_to_timeline_with_info() from the outcome m of _ensure_media_pool().
AppendInto(m, ok) ==
    IF m.raised \/ m.ret = 0 THEN m
    ELSE [m EXCEPT !.ret = IF ok /\ ProbeTimeline(m.s.media_pool, m.e) THEN 1 ELSE 0]

\* ResolveAPI.append_to_timeline_with_info(clip_infos): 1 for True, 0 for
\* False.
AppendToTimelineWithInfo(s, e, ok) ==
    Only({AppendInto(m, ok) : m \in {EnsureMediaPool(s, e)}})

\* The state of a build: the outcome r of the calls made so far, whether the
\* timeline was created, whether the loops over the clip list were entered,
\* the calls of insert_fusion_composition and append_to_timeline_with_info
\* made, and the lists results and skipped.
BuildOf(r, created) ==
    [r |-> r, created |-> created, entered |-> created /\ ~r.raised,
     calls |-> <<>>, results |-> <<>>, skipped |-> <<>>]

\* The build b after a call of kind made for entry i left the outcome q.
Placed(b, kind, i, q) ==
    IF q.raised
    THEN [b EXCEPT !.r = q, !.calls = Append(@, <<kind, i>>)]
    ELSE IF q.ret = 1
    THEN [b EXCEPT !.r = q, !.calls = Append(@, <<kind, i>>), !.results = Append(@, i)]
    ELSE [b EXCEPT !.r = q, !.calls = Append(@, <<kind, i>>), !.skipped = Append(@, i)]


\* The first loop after set_playhead_position() left the outcome p: its
\* call of get_current_timeline() stands outside its try block.
AfterPlayhead(b, entry, i, p) ==
    IF p.raised THEN [b EXCEPT !.r = p]
    ELSE Only({Placed(b, "fusion", i, Then(p, q)) :
                  q \in {InsertFusionComposition(p.s, p.e, entry.ok)}})

\* The body of the first loop for an entry whose file is None.
FusionEntry(b, entry, i) ==
    Only({AfterPlayhead(b, entry, i, Then(b.r, p)) : p \in {EnsureTimeline(b.r.s, b.r.e)}})

\* A test that takes every entry without a file name for a placeholder.
FileIsNone_Falsy(entry) == entry.file \in {"null", "empty"}

\* clip_spec.get("file") is None
FileIsNone(entry) == entry.file = "null"

\* not file_rel
NoFile(entry) == entry.file \in {"null", "empty"}

\* The first loop, from entry i on.
RECURSIVE FusionLoop(_, _, _)
FusionLoop(b, clips, i) ==
    IF i > Len(clips) \/ b.r.raised THEN b
    ELSE IF FileIsNone(clips[i])
    THEN Only({FusionLoop(n, clips, i + 1) : n \in {FusionEntry(b, clips[i], i)}})
    ELSE FusionLoop(b, clips, i + 1)

\* "if insert_fusion_comp:" around the first loop.
FusionPart(b, clips, insert_fusion_comp) ==
    IF insert_fusion_comp THEN FusionLoop(b, clips, 1) ELSE b

\* The second loop after neither _find_media_pool_clip(filename) nor
\* _find_media_pool_clip(name_no_ext), outcome g, gave a clip.
NotInPool(b, i, g) ==
    IF g.raised THEN [b EXCEPT !.r = g]
    ELSE [b EXCEPT !.r = g, !.skipped = Append(@, i)]

\* The second loop after _find_media_pool_clip(filename) left the outcome g
\* of get_media_pool().
AfterLookup(b, entry, i, g) ==
    IF g.raised THEN [b EXCEPT !.r = g]
    ELSE IF g.ret # 0 /\ entry.file = "found"
    THEN Only({Placed(b, "append", i, Then(g, a)) :
                  a \in {AppendToTimelineWithInfo(g.s, g.e, entry.ok)}})
    ELSE Only({NotInPool(b, i, Then(g, h)) : h \in {GetMediaPool(g.s, g.e)}})

\* The body of the second loop.
ClipEntry(b, entry, insert_fusion_comp, i) ==
    IF NoFile(entry)
    THEN IF insert_fusion_comp THEN b ELSE [b EXCEPT !.skipped = Append(@, i)]
    ELSE Only({AfterLookup(b, entry, i, Then(b.r, g)) : g \in {GetMediaPool(b.r.s, b.r.e)}})

\* The second loop, from entry i on.
RECURSIVE ClipLoop(_, _, _, _)
ClipLoop(b, clips, insert_fusion_comp, i) ==
    IF i > Len(clips) \/ b.r.raised THEN b
    ELSE Only({ClipLoop(n, clips, insert_fusion_comp, i + 1) :
                  n \in {ClipEntry(b, clips[i], insert_fusion_comp, i)}})

\* The text the build ends with.
Report(b) ==
    IF b.r.raised THEN b ELSE [b EXCEPT !.r = Text(@, "Timeline built.")]

\* The loop over the media clips run before the loop of the placeholders.
Loops_ClipsFirst(m, clips, insert_fusion_comp) ==
    Only({Report(FusionPart(f, clips, insert_fusion_comp)) :
             f \in {ClipLoop(BuildOf(m, TRUE), clips, insert_fusion_comp, 1)}})

\* The two loops on the timeline made current, outcome m.
Loops(m, clips, insert_fusion_comp) ==
    Only({Report(ClipLoop(f, clips, insert_fusion_comp, 1)) :
             f \in {FusionPart(BuildOf(m, TRUE), clips, insert_fusion_comp)}})

\* The build after create_timeline() left the outcome c.
Created(c, clips, insert_fusion_comp) ==
    IF c.raised THEN BuildOf(c, FALSE)
    ELSE IF c.ret = 0 THEN BuildOf(Text(c, "Failed to create timeline."), FALSE)
    ELSE Only({Loops(m, clips, insert_fusion_comp) : m \in {MakeCurrent(c)}})

\* The timeline of the name is deleted and created again.
Recreated(s, e, same) ==
    Only({CreateFresh(a, same) : a \in {Only({DropOld(f) : f \in {FindTimeline(s, e, same)}})}})

\* The tool build_timeline_from_json.  readable: whether the file at
\* json_path can be read as JSON; same: whether the project has a timeline
\* of the name in the sequence description.
Tool_build_timeline_from_json(s, e, readable, clips, insert_fusion_comp, same) ==
    IF ~IsConnected(s)
    THEN BuildOf(Text(Res(s, e, -1, FALSE, 0, 0, {}), NotConnected), FALSE)
    ELSE IF ~readable
    THEN BuildOf(Text(Res(s, e, -1, FALSE, 0, 0, {}), "Failed to read JSON."), FALSE)
    ELSE Only({Created(c, clips, insert_fusion_comp) : c \in {Recreated(s, e, same)}})

----------------------------------------------------------------------------
(* ResolveAPI.set_playhead_position: the timecode of a frame.              *)

\* The largest frame number the playhead is set to.
MaxFrame == 4000

\* What GetSetting("timelineFrameRate") returns, in thousandths of a frame
\* per second; 0 stands for None, "" and 0.
Settings == {0, 500, 1000, 23976, 29970}

\* How the call goes: there is no current timeline ("notimeline"); the
\* timeline has no SetCurrentTimecode ("nosetter"); it has no
\* GetTimecodeFromFrame ("absent"); GetTimecodeFromFrame returns nothing
\* ("none") or raises ("raise"); SetCurrentTimecode returns a false value for
\* the timecode GetTimecodeFromFrame gave ("refused"); or returns a true one
\* ("ok").
Natives == {"notimeline", "nosetter", "absent", "none", "raise", "refused", "ok"}

\* round() of a number given in thousandths: to the nearest integer, a half
\* to the even one.
Round(x) ==
    IF x % 1000 < 500 THEN x \div 1000
    ELSE IF x % 1000 > 500 THEN x \div 1000 + 1
    ELSE IF (x \div 1000) % 2 = 0 THEN x \div 1000
    ELSE x \div 1000 + 1

\* fps_int = round(float(get_setting_fn("timelineFrameRate") or 24))
FpsInt(setting) == IF setting = 0 THEN 24 ELSE Round(setting)

\* A conversion that takes the minutes and the seconds from the whole frame
\* count.
Timecode_NoRemainder(total_frames, fps_int) ==
    <<total_frames \div (3600 * fps_int),
      total_frames \div (60 * fps_int),
      total_frames \div fps_int,
      total_frames % fps_int>>

\* The fields h, m, s, f of tc_str.
Timecode(total_frames, fps_int) ==
    <<total_frames \div (3600 * fps_int),
      (total_frames % (3600 * fps_int)) \div (60 * fps_int),
      ((total_frames % (3600 * fps_int)) % (60 * fps_int)) \div fps_int,
      ((total_frames % (3600 * fps_int)) % (60 * fps_int)) % fps_int>>

\* The record of a call: set is the timecodes handed to SetCurrentTimecode,
\* each with the path it came from.
Playhead(frame, setting, native, set, ret) ==
    [frame |-> frame, fps |-> FpsInt(setting), native |-> native, set |-> set, ret |-> ret]

\* The timecode SetCurrentTimecode is handed: the one GetTimecodeFromFrame
\* gave (native = TRUE) or the one computed from the frame number.
TimecodeSet(frame, setting, native) ==
    IF native THEN [path |-> "native", tc |-> <<>>]
    ELSE [path |-> "fallback", tc |-> Timecode(frame, FpsInt(setting))]

\* "Compute timecode manually from frame number": set holds what was handed
\* to SetCurrentTimecode before; a frame rate that rounds to 0 ends the try
\* block with a ZeroDivisionError.
Fallback(frame, setting, native, set, accepted) ==
    IF FpsInt(setting) = 0 THEN Playhead(frame, setting, native, set, FALSE)
    ELSE Playhead(frame, setting, native, Append(set, TimecodeSet(frame, setting, FALSE)), accepted)

\* set_playhead_position(frame).  accepted: whether SetCurrentTimecode
\* returns a true value for the timecode computed from the frame number.
SetPlayheadPosition(frame, setting, native, accepted) ==
    IF native \in {"notimeline", "nosetter", "raise"} THEN Playhead(frame, setting, native, <<>>, FALSE)
    ELSE IF native = "ok" THEN Playhead(frame, setting, native, <<TimecodeSet(frame, setting, TRUE)>>, TRUE)
    ELSE IF native = "refused"
    THEN Fallback(frame, setting, native, <<TimecodeSet(frame, setting, TRUE)>>, accepted)
    ELSE Fallback(frame, setting, native, <<>>, accepted)

----------------------------------------------------------------------------
(* The media pool: a tree of folders holding clips.                        *)
(*                                                                         *)
(* Folders are numbered from 1, the root; parent[f] < f is the folder that *)
(* lists f, and a folder lists its subfolders in ascending number.  Clips  *)
(* are numbered by their place in the sequence clips, and a folder lists   *)
(* its clips in ascending number.  At most one call of the application     *)
(* misbehaves, fault = <<kind, id>>:                                       *)
(*   "pool"   the media pool cannot be had (_ensure_media_pool is False)   *)
(*   "root"   GetRootFolder() returns None                                 *)
(*   "name"   GetName() of folder id raises                                *)
(*   "subs"   GetSubFolders() of folder id raises                          *)
(*   "clips"  GetClips() of folder id raises                               *)
(*   "prop"   GetClipProperty("Clip Name") of clip id raises               *)
(*   "noname" GetClipProperty("Clip Name") of clip id returns ""           *)
(* rep is the shape in which the application returns a listing: "list", a  *)
(* sequence (None when there is nothing to list), or "dict", a mapping     *)
(* from 1..n in the same order.                                            *)

MaxFolders == 4
MaxClips == 2

Names == {"A", "B"}

NoFault == <<"none", 0>>

\* The numbers 1..n as a sequence.
Upto(n) == [i \in 1..n |-> i]

\* The subfolders of folder f and the clips in folder f, in listing order.
Children(t, f) == SelectSeq(Upto(Len(t.parent)), LAMBDA i : t.parent[i] = f)
ClipsOf(t, f) == SelectSeq(Upto(Len(t.clips)), LAMBDA i : t.clips[i].folder = f)

\* What a listing call returns for the items it lists.
Listing(t, items) ==
    IF t.rep = "dict"
    THEN [kind |-> "dict", items |-> [i \in 1..Len(items) |-> <<i, items[i]>>]]
    ELSE IF items = <<>>
    THEN [kind |-> "none", items |-> <<>>]
    ELSE [kind |-> "list", items |-> items]

GetSubFolders(t, f) == Listing(t, Children(t, f))
GetClips(t, f) == Listing(t, ClipsOf(t, f))

\* A mapping that takes only lists treats a dict as nothing to list.
AsList_ListOnly(raw) ==
    IF raw.kind = "list" THEN raw.items ELSE <<>>

\* x.values() if isinstance(x, dict) else (x or []).
AsList(raw) ==
    IF raw.kind = "dict"
    THEN [i \in 1..Len(raw.items) |-> raw.items[i][2]]
    ELSE raw.items

\* The folder a search starts at: the root when none is given.
StartOf(parent) == IF parent = 0 THEN 1 ELSE parent

\* The outcome of find_folder_by_name: the folder returned (0 for None),
\* whether an exception left it, and the number of GetSubFolders calls made.
FOut(ret, raised, nSubs) == [ret |-> ret, raised |-> raised, nSubs |-> nSubs]

RECURSIVE FindFolderByName(_, _, _)
RECURSIVE ScanSubFolders(_, _, _, _, _)

\* The end of one turn of the loop over the subfolders: r is what the
\* recursive call on subs[i] gave.
ScanFound(t, name, subs, i, n, r) ==
    IF r.raised \/ r.ret # 0
    THEN [r EXCEPT !.nSubs = n + r.nSubs]
    ELSE ScanSubFolders(t, name, subs, i + 1, n + r.nSubs)

\* The loop over the subfolders, from the i-th on, n listing calls made.
ScanSubFolders(t, name, subs, i, n) ==
    IF i > Len(subs) THEN FOut(0, FALSE, n)
    ELSE IF t.fault = <<"name", subs[i]>> THEN FOut(0, TRUE, n)
    ELSE IF t.fname[subs[i]] = name THEN FOut(subs[i], FALSE, n)
    ELSE ScanFound(t, name, subs, i, n, FindFolderByName(t, name, subs[i]))

\* A search that lists the subfolders before it looks at the folder itself.
FindFolderByName_ListsFirst(t, name, parent) ==
    IF t.fault = <<"pool", 0>> THEN FOut(0, FALSE, 0)
    ELSE IF parent = 0 /\ t.fault = <<"root", 0>> THEN FOut(0, FALSE, 0)
    ELSE IF t.fault = <<"subs", StartOf(parent)>> THEN FOut(0, TRUE, 1)
    ELSE IF t.fault = <<"name", StartOf(parent)>> THEN FOut(0, TRUE, 1)
    ELSE IF t.fname[StartOf(parent)] = name
    THEN FOut(StartOf(parent), FALSE, 1)
    ELSE ScanSubFolders(t, name, AsList(GetSubFolders(t, StartOf(parent))), 1, 1)

\* find_folder_by_name(name, parent); parent = 0 is None, the root.
FindFolderByName(t, name, parent) ==
    IF t.fault = <<"pool", 0>> THEN FOut(0, FALSE, 0)
    ELSE IF parent = 0 /\ t.fault = <<"root", 0>> THEN FOut(0, FALSE, 0)
    ELSE IF t.fault = <<"name", StartOf(parent)>> THEN FOut(0, TRUE, 0)
    ELSE IF t.fname[StartOf(parent)] = name
    THEN FOut(StartOf(parent), FALSE, 0)
    ELSE IF t.fault = <<"subs", StartOf(parent)>> THEN FOut(0, TRUE, 1)
    ELSE ScanSubFolders(t, name, AsList(GetSubFolders(t, StartOf(parent))), 1, 1)

\* A mapping from names to clips with nothing in it, and the mapping m with
\* name set to clip c.
NoClips == [n \in {} |-> 0]
Put(m, name, c) == [n \in (DOMAIN m) \cup {name} |-> IF n = name THEN c ELSE m[n]]

\* dict.update: every entry of m2 is set in m1.
Update(m1, m2) == [n \in (DOMAIN m1) \cup (DOMAIN m2) |-> IF n \in DOMAIN m2 THEN m2[n] ELSE m1[n]]

\* The elements of a sequence.
Range(q) == {q[i] : i \in 1..Len(q)}

\* GetClipProperty("Clip Name") of clip c, where it does not raise.
ClipName(t, c) == IF t.fault = <<"noname", c>> THEN "" ELSE t.clips[c].name

\* A loop body that takes every named clip, asked for or not.
TakeClip_NoFilter(t, clip_names, c, result) ==
    IF t.fault = <<"prop", c>> THEN result
    ELSE IF ClipName(t, c) # ""
    THEN Put(result, ClipName(t, c), c)
    ELSE result

\* The body of the loop over the clips of a folder: result is the mapping
\* so far.
TakeClip(t, clip_names, c, result) ==
    IF t.fault = <<"prop", c>> THEN result
    ELSE IF ClipName(t, c) # "" /\ ClipName(t, c) \in Range(clip_names)
    THEN Put(result, ClipName(t, c), c)
    ELSE result

RECURSIVE ScanClips(_, _, _, _, _)
ScanClips(t, clip_names, items, i, result) ==
    IF i > Len(items) THEN result
    ELSE ScanClips(t, clip_names, items, i + 1, TakeClip(t, clip_names, items[i], result))

\* The first try block of find_clips_by_name on folder f.
OwnClips(t, clip_names, f) ==
    IF t.fault = <<"clips", f>> THEN NoClips
    ELSE ScanClips(t, clip_names, AsList(GetClips(t, f)), 1, NoClips)

RECURSIVE FindClipsByName(_, _, _)
RECURSIVE ScanSubClips(_, _, _, _, _)

ScanSubClips(t, clip_names, subs, i, result) ==
    IF i > Len(subs) THEN result
    ELSE ScanSubClips(t, clip_names, subs, i + 1,
                      Update(result, FindClipsByName(t, clip_names, subs[i])))

\* A walk with one try block around the whole of it: a listing call that
\* raises anywhere ends it.
WithSubClips_OneTry(t, clip_names, f, result) ==
    IF t.fault[1] \in {"subs", "clips"} THEN result
    ELSE ScanSubClips(t, clip_names, AsList(GetSubFolders(t, f)), 1, result)

\* The second try block of find_clips_by_name on folder f, result the
\* mapping the first one left.
WithSubClips(t, clip_names, f, result) ==
    IF t.fault = <<"subs", f>> THEN result
    ELSE ScanSubClips(t, clip_names, AsList(GetSubFolders(t, f)), 1, result)

\* find_clips_by_name(clip_names, source_folder); 0 is None, the root.
FindClipsByName(t, clip_names, source_folder) ==
    IF t.fault = <<"pool", 0>> THEN NoClips
    ELSE IF source_folder = 0 /\ t.fault = <<"root", 0>> THEN NoClips
    ELSE WithSubClips(t, clip_names, StartOf(source_folder),
                      OwnClips(t, clip_names, StartOf(source_folder)))

\* The loop of search() over the clips of a folder, from the i-th on: the
\* first clip that carries the name (0 when none does).  No call is guarded.
RECURSIVE FirstNamed(_, _, _, _)
FirstNamed(t, clip_name, items, i) ==
    IF i > Len(items) THEN FOut(0, FALSE, 0)
    ELSE IF t.fault = <<"prop", items[i]>> THEN FOut(0, TRUE, 0)
    ELSE IF ClipName(t, items[i]) = clip_name THEN FOut(items[i], FALSE, 0)
    ELSE FirstNamed(t, clip_name, items, i + 1)

RECURSIVE Search(_, _, _)
RECURSIVE SearchSubs(_, _, _, _)

\* The loop of search() over the subfolders, from the i-th on.
SearchSubs(t, clip_name, subs, i) ==
    IF i > Len(subs) THEN FOut(0, FALSE, 0)
    ELSE Only({IF r.raised \/ r.ret # 0 THEN r ELSE SearchSubs(t, clip_name, subs, i + 1) :
                  r \in {Search(t, clip_name, subs[i])}})

\* search(folder) of _find_media_pool_clip.
Search(t, clip_name, folder) ==
    IF t.fault = <<"clips", folder>> THEN FOut(0, TRUE, 0)
    ELSE Only({IF own.raised \/ own.ret # 0 THEN own
               ELSE IF t.fault = <<"subs", folder>> THEN FOut(0, TRUE, 0)
               ELSE SearchSubs(t, clip_name, AsList(GetSubFolders(t, folder)), 1) :
                  own \in {FirstNamed(t, clip_name, AsList(GetClips(t, folder)), 1)}})

\* _find_media_pool_clip(clip_name) of the server: the clip (0 for None).
\* search(None) raises when GetRootFolder() returns None.
FindMediaPoolClip(t, clip_name) ==
    IF t.fault = <<"pool", 0>> THEN FOut(0, FALSE, 0)
    ELSE IF t.fault = <<"root", 0>> THEN FOut(0, TRUE, 0)
    ELSE Search(t, clip_name, 1)

\* The body of the loop over the clips in list_all_clip_names.
TakeName(t, c, names) ==
    IF t.fault = <<"prop", c>> THEN names
    ELSE IF ClipName(t, c) # "" THEN Append(names, ClipName(t, c))
    ELSE names

RECURSIVE ScanNames(_, _, _, _)
ScanNames(t, items, i, names) ==
    IF i > Len(items) THEN names
    ELSE ScanNames(t, items, i + 1, TakeName(t, items[i], names))

OwnNames(t, f) ==
    IF t.fault = <<"clips", f>> THEN <<>>
    ELSE ScanNames(t, AsList(GetClips(t, f)), 1, <<>>)

RECURSIVE ListAllClipNames(_, _)
RECURSIVE ScanSubNames(_, _, _, _)

ScanSubNames(t, subs, i, names) ==
    IF i > Len(subs) THEN names
    ELSE ScanSubNames(t, subs, i + 1, names \o ListAllClipNames(t, subs[i]))

WithSubNames(t, f, names) ==
    IF t.fault = <<"subs", f>> THEN names
    ELSE ScanSubNames(t, AsList(GetSubFolders(t, f)), 1, names)

\* list_all_clip_names(folder); 0 is None, the root.
ListAllClipNames(t, folder) ==
    IF t.fault = <<"pool", 0>> THEN <<>>
    ELSE IF folder = 0 /\ t.fault = <<"root", 0>> THEN <<>>
    ELSE WithSubNames(t, StartOf(folder), OwnNames(t, StartOf(folder)))

----------------------------------------------------------------------------
(* The state machine.                                                      *)

VARIABLES
    sess,    \* the handles the ResolveAPI object holds
    ext,     \* the external application
    phase,   \* "new" before ResolveAPI() ran, "run" after it, "crashed" when it raised
    pre,     \* the session at the start of the last operation
    last,    \* the last operation and its outcome
    tree,    \* the media pool the resolver searches
    found,   \* the last search of the resolver and its outcome
    built,   \* the last build of a timeline from a sequence description
    head     \* the last placement of the playhead

vars == <<sess, ext, phase, pre, last, tree, found, built, head>>

NoOp == [op |-> "none", ret |-> -1, raised |-> FALSE, nRefresh |-> 0, nConnect |-> 0,
         written |-> {}, tlq |-> 0, tlFail |-> FALSE, text |-> "", tries |-> <<>>,
         used |-> 0]

\* The record of an operation named op with outcome r.
Did(op, r) ==
    [op |-> op, ret |-> r.ret, raised |-> r.raised, nRefresh |-> r.nRefresh,
     nConnect |-> r.nConnect, written |-> r.written, tlq |-> r.tlq, tlFail |-> r.tlFail,
     text |-> r.text, tries |-> r.tries, used |-> r.used]

\* No search made, and the media pool of the states in which none is made.
NoFind == [op |-> "none", name |-> "", clip_names |-> <<>>, start |-> 0,
           folder |-> FOut(0, FALSE, 0), map |-> NoClips, names |-> <<>>,
           clip |-> FOut(0, FALSE, 0)]
NoTree == [parent |-> <<0>>, fname |-> <<"A">>, clips |-> <<>>, fault |-> NoFault,
           rep |-> "list"]

\* No timeline built: the sequence description, the flag insert_fusion_comp,
\* whether the timeline was created, the calls of insert_fusion_composition
\* ("fusion") and append_to_timeline_with_info ("append") in the order they
\* were made, each with the number of the entry it was made for, whether the
\* loops over the clip list were entered, and the entries reported in results
\* and in skipped.
NoBuild == [clips |-> <<>>, insert_fusion_comp |-> FALSE, created |-> FALSE,
            entered |-> FALSE, calls |-> <<>>, results |-> <<>>, skipped |-> <<>>]

\* No playhead placed: the frame and the frame rate, the outcome of the
\* native conversion, the timecodes handed to SetCurrentTimecode with the
\* path each came from, and the value returned.
NoHead == [frame |-> 0, fps |-> 0, native |-> "unset", set |-> <<>>, ret |-> FALSE]

Init ==
    /\ sess = NullSession
    /\ ext \in ExtStates
    /\ phase = "new"
    /\ pre = NullSession
    /\ last = NoOp
    /\ tree = NoTree
    /\ found = NoFind
    /\ built = NoBuild
    /\ head = NoHead

\* The effect of an operation named op with outcome r.
Apply(op, r) ==
    /\ pre' = sess
    /\ sess' = r.s
    /\ ext' = r.e
    /\ last' = Did(op, r)
    /\ UNCHANGED <<tree, found, built, head>>

\* ResolveAPI(): __init__ sets every field to None and connects.  An
\* exception leaves the constructor, and the server does not start.
Construct ==
    /\ phase = "new"
    /\ \E r \in {ConnectToResolve(NullSession, ext)} :
          /\ Apply("construct", r)
          /\ phase' = IF r.raised THEN "crashed" ELSE "run"

\* The user of the application changes its state between two operations.
ExtChange ==
    /\ phase = "run"
    /\ last.op = "none"
    /\ ext' \in ExtNeighbours(ext)
    /\ last' = NoOp
    /\ UNCHANGED <<sess, phase, pre, tree, found, built, head>>

\* The operation has answered its caller, and the next request is awaited.
Return ==
    /\ phase = "run"
    /\ last.op # "none"
    /\ pre' = sess
    /\ last' = NoOp
    /\ UNCHANGED <<sess, ext, phase, tree, found, built, head>>

\* An operation starts when the one before it has answered.
Ready == phase = "run" /\ last.op = "none"

CallRefresh ==
    /\ Ready
    /\ Apply("refresh", Refresh(sess, ext))
    /\ UNCHANGED phase

CallEnsureProject ==
    /\ Ready
    /\ Apply("ensure_project", EnsureProject(sess, ext))
    /\ UNCHANGED phase

CallEnsureMediaPool ==
    /\ Ready
    /\ Apply("ensure_media_pool", EnsureMediaPool(sess, ext))
    /\ UNCHANGED phase

CallEnsureTimeline ==
    /\ Ready
    /\ Apply("ensure_timeline", EnsureTimeline(sess, ext))
    /\ UNCHANGED phase

CallGetCurrentProject ==
    /\ Ready
    /\ Apply("get_current_project", GetCurrentProject(sess, ext))
    /\ UNCHANGED phase

CallGetMediaPool ==
    /\ Ready
    /\ Apply("get_media_pool", GetMediaPool(sess, ext))
    /\ UNCHANGED phase

CallLoadProject ==
    /\ Ready
    /\ \E name \in Projects : \E accepted \in BOOLEAN :
          Apply("load_project", LoadProject(sess, ext, name, accepted))
    /\ UNCHANGED phase

CallCreateProject ==
    /\ Ready
    /\ \E name \in Projects : \E accepted \in BOOLEAN :
          Apply("create_project", CreateProject(sess, ext, name, accepted))
    /\ UNCHANGED phase

CallHotReload ==
    /\ Ready
    /\ Apply("hot_reload", HotReload(sess, ext))
    /\ UNCHANGED phase

CallSaveProject ==
    /\ Ready
    /\ \E first \in SaveOutcomes : \E second \in SaveOutcomes :
          Apply("save_project", SaveProject(sess, ext, first, second))
    /\ UNCHANGED phase

CallAddItemsToMediaPool ==
    /\ Ready
    /\ Apply("add_items_to_media_pool", AddItemsToMediaPool(sess, ext))
    /\ UNCHANGED phase

CallCreateTimeline ==
    /\ Ready
    /\ \E accepted \in BOOLEAN :
          Apply("create_timeline", CreateTimeline(sess, ext, accepted))
    /\ UNCHANGED phase

Next ==
    \/ Construct
    \/ ExtChange
    \/ Return
    \/ CallRefresh
    \/ CallEnsureProject
    \/ CallEnsureMediaPool
    \/ CallEnsureTimeline
    \/ CallGetCurrentProject
    \/ CallGetMediaPool
    \/ CallLoadProject
    \/ CallCreateProject
    \/ CallHotReload
    \/ CallSaveProject
    \/ CallAddItemsToMediaPool
    \/ CallCreateTimeline

Spec == Init /\ [][Next]_vars

----------------------------------------------------------------------------
(* The entity resolver on its own: a media pool is drawn, and the three    *)
(* searches are run on it.  The session is not touched: whether the media  *)
(* pool can be had is the fault "pool" of the tree.  The searches change   *)
(* nothing, so one search is made on each media pool drawn.                *)

\* The parent sequences of the trees of n folders.
Shapes(n) ==
    {p \in [1..n -> 0..(n - 1)] : p[1] = 0 /\ \A i \in 2..n : p[i] \in 1..(i - 1)}

\* The sequences of at most k clips in the folders 1..n.
RECURSIVE ClipSeqs(_, _)
ClipSeqs(n, k) ==
    IF k = 0 THEN {<<>>}
    ELSE ClipSeqs(n, k - 1)
         \cup {Append(q, c) : q \in {x \in ClipSeqs(n, k - 1) : Len(x) = k - 1},
                              c \in [folder : 1..n, name : Names]}

\* The faults of a tree of n folders and k clips.
FolderFaults(n) ==
    {NoFault, <<"pool", 0>>, <<"root", 0>>}
    \cup {<<kind, f>> : kind \in {"name", "subs"}, f \in 1..n}
ClipFaults(n, k) ==
    {NoFault, <<"pool", 0>>, <<"root", 0>>}
    \cup {<<kind, f>> : kind \in {"subs", "clips"}, f \in 1..n}
    \cup {<<kind, c>> : kind \in {"prop", "noname"}, c \in 1..k}

Reps == {"list", "dict"}

\* The media pool is a tree of MaxFolders folders with any names and no
\* clips, or a tree of one folder less, all of one name, with up to MaxClips
\* clips.
FolderTree ==
    \E p \in Shapes(MaxFolders) : \E fn \in [1..MaxFolders -> Names] :
    \E x \in FolderFaults(MaxFolders) : \E r \in Reps :
        tree = [parent |-> p, fname |-> fn, clips |-> <<>>, fault |-> x, rep |-> r]
ClipTree ==
    \E q \in ClipSeqs(MaxFolders - 1, MaxClips) : \E p \in Shapes(MaxFolders - 1) :
    \E x \in ClipFaults(MaxFolders - 1, Len(q)) : \E r \in Reps :
        tree = [parent |-> p, fname |-> [i \in 1..(MaxFolders - 1) |-> "A"], clips |-> q,
                fault |-> x, rep |-> r]

\* The folders a search is started at: none given, or the first subfolder
\* of the root.
Starts == {0, 2}

\* The lists of names find_clips_by_name is asked for.
Requests == {<<>>, <<"A">>, <<"A", "B">>}

InitResolver ==
    /\ sess = NullSession
    /\ ext = [curProj |-> 0, tlOpen |-> FALSE, faults |-> {}]
    /\ phase = "run"
    /\ pre = NullSession
    /\ last = NoOp
    /\ (FolderTree \/ ClipTree)
    /\ found = NoFind
    /\ built = NoBuild
    /\ head = NoHead

CallFindFolderByName ==
    /\ found.op = "none"
    /\ \E name \in Names : \E parent \in Starts :
          found' = [NoFind EXCEPT !.op = "find_folder_by_name", !.name = name,
                                  !.start = parent,
                                  !.folder = FindFolderByName(tree, name, parent)]
    /\ UNCHANGED <<sess, ext, phase, pre, last, tree, built, head>>

CallFindClipsByName ==
    /\ found.op = "none"
    /\ \E clip_names \in Requests : \E source_folder \in Starts :
          found' = [NoFind EXCEPT !.op = "find_clips_by_name", !.clip_names = clip_names,
                                  !.start = source_folder,
                                  !.map = FindClipsByName(tree, clip_names, source_folder)]
    /\ UNCHANGED <<sess, ext, phase, pre, last, tree, built, head>>

CallListAllClipNames ==
    /\ found.op = "none"
    /\ \E folder \in Starts :
          found' = [NoFind EXCEPT !.op = "list_all_clip_names", !.start = folder,
                                  !.names = ListAllClipNames(tree, folder)]
    /\ UNCHANGED <<sess, ext, phase, pre, last, tree, built, head>>

CallFindMediaPoolClip ==
    /\ found.op = "none"
    /\ \E clip_name \in Names :
          found' = [NoFind EXCEPT !.op = "_find_media_pool_clip", !.name = clip_name,
                                  !.clip = FindMediaPoolClip(tree, clip_name)]
    /\ UNCHANGED <<sess, ext, phase, pre, last, tree, built, head>>

NextResolver ==
    \/ CallFindMediaPoolClip
    \/ CallFindFolderByName
    \/ CallFindClipsByName
    \/ CallListAllClipNames

SpecResolver == InitResolver /\ [][NextResolver]_vars

----------------------------------------------------------------------------
(* The server: the session is constructed, and tools and resources are     *)
(* invoked one at a time while the application changes between them.       *)

Invoke_timeline_items ==
    /\ Ready
    /\ Apply("get_timeline_items_resource", Resource_timeline_items(sess, ext))
    /\ UNCHANGED phase

Invoke_refresh ==
    /\ Ready
    /\ Apply("refresh_tool", Tool_refresh(sess, ext))
    /\ UNCHANGED phase

Invoke_hot_reload ==
    /\ Ready
    /\ Apply("hot_reload_tool", Tool_hot_reload(sess, ext))
    /\ UNCHANGED phase

Invoke_open_page ==
    /\ Ready
    /\ \E valid \in BOOLEAN : Apply("open_page", Tool_open_page(sess, ext, valid))
    /\ UNCHANGED phase

Invoke_add_track ==
    /\ Ready
    /\ Apply("add_track", Tool_add_track(sess, ext))
    /\ UNCHANGED phase

Invoke_delete_timeline ==
    /\ Ready
    /\ Apply("delete_timeline", Tool_delete_timeline(sess, ext))
    /\ UNCHANGED phase

NextServer ==
    \/ Construct
    \/ ExtChange
    \/ Return
    \/ Invoke_timeline_items
    \/ Invoke_refresh
    \/ Invoke_hot_reload
    \/ Invoke_open_page
    \/ Invoke_add_track
    \/ Invoke_delete_timeline

SpecServer == Init /\ [][NextServer]_vars

----------------------------------------------------------------------------
(* The server building a timeline: the session is constructed and a build  *)
(* is invoked on a sequence description.                                   *)

\* The clip lists of at most n entries.
RECURSIVE ClipLists(_)
ClipLists(n) ==
    IF n = 0 THEN {<<>>}
    ELSE ClipLists(n - 1)
         \cup {Append(q, x) : q \in {y \in ClipLists(n - 1) : Len(y) = n - 1}, x \in Entries}

\* The effect of a build with outcome b.
ApplyBuild(b, clips, insert_fusion_comp) ==
    /\ pre' = sess
    /\ sess' = b.r.s
    /\ ext' = b.r.e
    /\ last' = Did("build_timeline_from_json", b.r)
    /\ built' = [clips |-> clips, insert_fusion_comp |-> insert_fusion_comp,
                 created |-> b.created, entered |-> b.entered, calls |-> b.calls,
                 results |-> b.results,
                 skipped |-> b.skipped]
    /\ UNCHANGED <<phase, tree, found, head>>

Invoke_build_timeline_from_json ==
    /\ Ready
    /\ built = NoBuild
    /\ \/ \E b \in {Tool_build_timeline_from_json(sess, ext, FALSE, <<>>, FALSE, FALSE)} :
             ApplyBuild(b, <<>>, FALSE)
       \/ \E clips \in ClipLists(MaxEntries) : \E insert_fusion_comp \in BOOLEAN :
          \E same \in BOOLEAN :
          \E b \in {Tool_build_timeline_from_json(sess, ext, TRUE, clips,
                                                  insert_fusion_comp, same)} :
             ApplyBuild(b, clips, insert_fusion_comp)

NextBuild ==
    \/ Construct
    \/ Return
    \/ Invoke_build_timeline_from_json

SpecBuild == Init /\ [][NextBuild]_vars

----------------------------------------------------------------------------
(* The playhead on its own: set_playhead_position is called on a frame.    *)

InitPlayhead ==
    /\ sess = NullSession
    /\ ext = [curProj |-> 0, tlOpen |-> FALSE, faults |-> {}]
    /\ phase = "run"
    /\ pre = NullSession
    /\ last = NoOp
    /\ tree = NoTree
    /\ found = NoFind
    /\ built = NoBuild
    /\ head = NoHead

CallSetPlayheadPosition ==
    /\ head = NoHead
    /\ \E frame \in 0..MaxFrame : \E setting \in Settings : \E native \in Natives :
       \E accepted \in BOOLEAN :
          head' = SetPlayheadPosition(frame, setting, native, accepted)
    /\ UNCHANGED <<sess, ext, phase, pre, last, tree, found, built>>

SpecPlayhead == InitPlayhead /\ [][CallSetPlayheadPosition]_vars

----------------------------------------------------------------------------
(* Claims.                                                                 *)

\* The project handle held when the last operation started was a live one.
ProjectValidAtStart == pre.current_project # 0 /\ ProbeProject(pre.current_project, ext)

EnsureOps == {"ensure_project", "ensure_media_pool", "ensure_timeline"}

\* C1: a handle returned by get_current_project, get_media_pool or
\* get_current_timeline is None or a handle whose probe succeeds at the
\* moment it is returned.
C1_ReturnedHandleValidOrNull ==
    /\ (last.op = "get_current_project" /\ ~last.raised)
          => (last.ret = 0 \/ ProbeProject(last.ret, ext))
    /\ (last.op = "get_media_pool" /\ ~last.raised)
          => (last.ret = 0 \/ ProbeMediaPool(last.ret, ext))
    /\ (last.op = "ensure_timeline" /\ ~last.raised)
          => (last.ret = 0 \/ ProbeTimeline(last.ret, ext))

\* C2: one call of an ensure operation enters refresh() at most once, and
\* reports unavailability instead of raising when the recovery fails.
C2_OneShotRecovery ==
    (last.op \in EnsureOps) => (last.nRefresh <= 1 /\ ~last.raised)

\* C3: refresh and the ensure operations never let an exception reach
\* their caller.
C3_NoFaultCrossesBoundary ==
    (last.op \in EnsureOps \cup {"refresh"}) => ~last.raised

\* C4: with a valid project handle and a timeline whose probe raises,
\* get_timeline asks the project for the timeline exactly once more and
\* returns None unless that yields a handle that passes the probe.
C4_TimelineRederivedOnce ==
    (last.op = "ensure_timeline" /\ ProjectValidAtStart /\ last.tlFail)
        => /\ ~last.raised
           /\ last.tlq = 2
           /\ (last.ret = 0 \/ ProbeTimeline(last.ret, ext))

\* C5, as claimed: with a valid project handle and a failing timeline
\* probe, a get_timeline that returns leaves every dependent handle of the
\* session as it was.
C5_OnlyTimelineRederived ==
    (last.op = "ensure_timeline" /\ ProjectValidAtStart /\ last.tlFail /\ ~last.raised)
        => \A f \in AllDeps : sess[f] = pre[f]

\* C5, amended: with a valid project handle, a timeline query or probe that
\* raises makes get_timeline enter refresh() exactly once, which keeps the
\* application handle and, when it completes, assigns all five dependent
\* handles; the session is left untouched only when the first query yields a
\* live timeline or None.
C5_FullRefreshOnTimelineFault ==
    (last.op = "ensure_timeline" /\ ProjectValidAtStart)
        => IF last.tlFail
           THEN /\ last.nRefresh = 1
                /\ sess.resolve = pre.resolve
                /\ (~last.raised => last.written = AllDeps)
                /\ ((~last.raised /\ sess.current_project # 0) => last.tlq = 2)
           ELSE /\ last.nRefresh = 0
                /\ last.written = {}
                /\ sess = pre

\* C5 witness: the timeline probe failed under a valid project, and the
\* refresh replaced a dependent handle.
C5_Witness ==
    /\ last.op = "ensure_timeline" /\ ProjectValidAtStart /\ last.tlFail
    /\ ~last.raised
    /\ sess.media_storage # pre.media_storage

\* C6: in the constructor's connect, once the application handle is held,
\* a derivation step that fails leaves only its own field None: every
\* handle whose own step succeeds is held, and nothing is raised.
C6_ConnectSiblingsIndependent ==
    (last.op = "construct" /\ sess.resolve # 0)
        => /\ ~last.raised
           /\ (Mode(ext, "pm") = "ok" => sess.project_manager # 0)
           /\ (Mode(ext, "ms") = "ok" => sess.media_storage # 0)
           /\ (Mode(ext, "fu") = "ok" => sess.fusion # 0)
           /\ ((Mode(ext, "pm") = "ok" /\ Mode(ext, "cp") = "ok")
                  => sess.current_project = ext.curProj)
           /\ ((Mode(ext, "pm") = "ok" /\ Mode(ext, "cp") = "ok" /\ Mode(ext, "mp") = "ok")
                  => sess.media_pool = ext.curProj)

\* C7: a second refresh() right after a refresh(), the external application
\* unchanged, leaves the session as the first one left it; and a refresh
\* that starts without an application handle enters connect.
C7_RefreshIdempotent ==
    (last.op = "refresh")
        => /\ Refresh(sess, ext).s = sess
           /\ (pre.resolve = 0 => last.nConnect = 1)

\* C8, as claimed: after any _ensure_project call, the next one, the
\* external application unchanged, finds a valid handle and does not refresh.
C8_EnsureProjectIdempotent ==
    (last.op = "ensure_project")
        => /\ EnsureProject(sess, ext).ret = 1
           /\ EnsureProject(sess, ext).nRefresh = 0

\* C8, amended: after an _ensure_project call that returned True, the next
\* one, the external application unchanged, returns True without a refresh
\* and leaves the session as it is.
C8_EnsureProjectIdempotentAfterTrue ==
    (last.op = "ensure_project" /\ ~last.raised /\ last.ret = 1)
        => /\ EnsureProject(sess, ext).ret = 1
           /\ ~EnsureProject(sess, ext).raised
           /\ EnsureProject(sess, ext).nRefresh = 0
           /\ EnsureProject(sess, ext).s = sess

\* C8 witness: an _ensure_project call that recovered a stale handle by a
\* refresh and returned True.
C8_Witness ==
    /\ last.op = "ensure_project" /\ ~last.raised /\ last.ret = 1
    /\ last.nRefresh = 1
    /\ pre.current_project # 0 /\ pre.current_project # sess.current_project

\* C9: between operations the session either holds the application handle
\* or holds no handle at all.
C9_ConnectedOrFullyDisconnected ==
    (phase # "new")
        => (sess.resolve # 0 \/ \A f \in AllDeps : sess[f] = 0)

\* C9 witness: a connected session whose dependent handles are partly None.
C9_Witness ==
    /\ phase = "run" /\ last.op = "refresh"
    /\ sess.resolve # 0
    /\ sess.project_manager # 0 /\ sess.current_project = 0 /\ sess.media_pool = 0

\* C10, as claimed: an operation that returns has assigned either none or
\* all five of the dependent handles.
C10_WholesaleOnly ==
    ~last.raised => last.written \in {{}, AllDeps}

\* The dependent handles refresh has assigned when an exception ends it
\* early: a proper prefix of its order of assignment.
RefreshPrefixes ==
    {{},
     {"project_manager"},
     {"project_manager", "current_project"},
     {"project_manager", "current_project", "media_storage"},
     {"project_manager", "current_project", "media_storage", "fusion"}}

\* C10, amended: an operation that assigns dependent handles assigns all
\* five through refresh(), except that load_project assigns the current
\* project and, unless GetMediaPool raises, the media pool and nothing else,
\* and that a refresh (or the constructor's connect) ended by an exception
\* has assigned only the handles before the failing step.
C10_WholesaleExceptLoadProject ==
    \/ last.written = {}
    \/ last.written = AllDeps /\ (last.nRefresh >= 1 \/ last.nConnect >= 1)
    \/ /\ last.op = "load_project"
       /\ last.nRefresh = 0
       /\ last.written = IF last.raised THEN {"current_project"}
                         ELSE {"current_project", "media_pool"}
       /\ \A f \in {"project_manager", "media_storage", "fusion"} : sess[f] = pre[f]
    \/ /\ last.raised
       /\ (last.nRefresh >= 1 \/ last.nConnect >= 1)
       /\ last.written \in RefreshPrefixes

\* C10 witness: load_project replaced the project and pool handles only.
C10_Witness ==
    /\ last.op = "load_project" /\ last.ret = 1
    /\ sess.current_project # pre.current_project
    /\ sess.media_pool # pre.media_pool
    /\ sess.media_storage = pre.media_storage

----------------------------------------------------------------------------
(* Claims about the entity resolver, under SpecResolver.                   *)

\* Folder f is folder s or lies below it.
RECURSIVE IsUnder(_, _, _)
IsUnder(t, f, s) == f = s \/ (f # 1 /\ IsUnder(t, t.parent[f], s))

\* The clips at and below f: a folder's own clips, then the clips of each of
\* its subfolders in listing order.
RECURSIVE ClipOrder(_, _)
RECURSIVE ClipOrderOf(_, _, _)
ClipOrderOf(t, subs, i) ==
    IF i > Len(subs) THEN <<>>
    ELSE ClipOrder(t, subs[i]) \o ClipOrderOf(t, subs, i + 1)
ClipOrder(t, f) == ClipsOf(t, f) \o ClipOrderOf(t, Children(t, f), 1)

\* The first element of q that is in the set S, 0 when none is.
FirstIn(S, q) ==
    IF \E i \in 1..Len(q) : q[i] \in S
    THEN q[CHOOSE i \in 1..Len(q) : q[i] \in S /\ \A j \in 1..(i - 1) : q[j] \notin S]
    ELSE 0

\* The folders and the clips of a name.
FoldersNamed(t, name) == {f \in 1..Len(t.parent) : t.fname[f] = name}
ClipsNamed(t, name) == {c \in 1..Len(t.clips) : t.clips[c].name = name}

FoundFolder == found.op = "find_folder_by_name"
FoundClips == found.op = "find_clips_by_name"
FromFolder == StartOf(found.start)

\* Some direct subfolder of the starting folder carries the name searched for.
DirectChildMatches ==
    \E c \in Range(Children(tree, FromFolder)) : tree.fname[c] = found.name

\* C11: when the name is not the starting folder's and a direct subfolder
\* carries it, find_folder_by_name returns the first direct subfolder that
\* carries it, whatever lies deeper under earlier siblings.
C11_DirectChildBeforeDeeper ==
    (FoundFolder /\ tree.fault = NoFault /\ tree.fname[FromFolder] # found.name
       /\ DirectChildMatches)
    => found.folder.ret
         = FirstIn(FoldersNamed(tree, found.name), Children(tree, FromFolder))

\* C12: when the starting folder's name is the one searched for,
\* find_folder_by_name returns the starting folder and makes no
\* GetSubFolders call.
C12_RootMatchWithoutListing ==
    (FoundFolder /\ tree.fault \notin {<<"pool", 0>>, <<"root", 0>>, <<"name", FromFolder>>}
       /\ tree.fname[FromFolder] = found.name)
    => /\ ~found.folder.raised
       /\ found.folder.ret = FromFolder
       /\ found.folder.nSubs = 0

\* The starting folder has subfolders, one of them of the same name, and is
\* returned.
C12_Witness ==
    /\ FoundFolder /\ tree.fname[FromFolder] = found.name
    /\ \E c \in Range(Children(tree, FromFolder)) : tree.fname[c] = found.name
    /\ found.folder.ret = FromFolder
    /\ found.folder.nSubs = 0

\* The names asked for that some clip at or below the starting folder carries.
NamesPresent ==
    {n \in Range(found.clip_names) :
        \E c \in 1..Len(tree.clips) :
            tree.clips[c].name = n /\ IsUnder(tree, tree.clips[c].folder, FromFolder)}

\* C13: on a media pool whose calls all answer, the keys of the mapping
\* find_clips_by_name returns are exactly the requested names that a clip at
\* or below the starting folder carries, and each key maps to a clip of that
\* name.
C13_KeysAreNamesPresent ==
    (FoundClips /\ tree.fault = NoFault)
    => /\ DOMAIN found.map = NamesPresent
       /\ \A n \in DOMAIN found.map :
             /\ found.map[n] \in 1..Len(tree.clips)
             /\ tree.clips[found.map[n]].name = n

\* "A" and "B" are asked for; "A" is two levels below the root and nowhere
\* else, "B" is nowhere: the mapping has the one key "A".
C13_Witness ==
    /\ FoundClips /\ tree.fault = NoFault /\ found.start = 0
    /\ found.clip_names = <<"A", "B">>
    /\ DOMAIN found.map = {"A"}
    /\ \A c \in 1..Len(tree.clips) :
          /\ tree.clips[c].name = "A"
          /\ tree.clips[c].folder # 1
          /\ tree.parent[tree.clips[c].folder] # 1
    /\ tree.clips # <<>>

\* C14: when several clips at or below the starting folder carry a requested
\* name, find_clips_by_name maps the name to the first of them in traversal
\* order.
C14_FirstClipWins ==
    (FoundClips /\ tree.fault = NoFault)
    => \A n \in DOMAIN found.map :
          found.map[n]
            = FirstIn(ClipsNamed(tree, n), ClipOrder(tree, FromFolder))

\* Clip c can be read by a walk from folder s: its name is returned and is
\* not empty, its folder lists its clips, and every folder from s down to
\* the parent of its folder lists its subfolders.
Readable(t, c, s) ==
    /\ t.fault \notin {<<"pool", 0>>, <<"prop", c>>, <<"noname", c>>,
                       <<"clips", t.clips[c].folder>>}
    /\ IsUnder(t, t.clips[c].folder, s)
    /\ \A g \in 1..Len(t.parent) :
          (g # t.clips[c].folder /\ IsUnder(t, t.clips[c].folder, g) /\ IsUnder(t, g, s))
          => t.fault # <<"subs", g>>

\* C15: a listing call that raises at one folder loses only what lies behind
\* that call: the mapping find_clips_by_name returns has every requested
\* name carried by a clip that can still be read, in the folders visited
\* before the failing one and in those visited after it.
C15_PartialFailureTolerated ==
    (FoundClips /\ ~(found.start = 0 /\ tree.fault = <<"root", 0>>))
    => DOMAIN found.map
         = {n \in Range(found.clip_names) :
               \E c \in 1..Len(tree.clips) :
                   tree.clips[c].name = n /\ Readable(tree, c, FromFolder)}

\* A listing call of a folder raises, and the clip returned lies in a
\* sibling of that folder visited after it.
C15_Witness ==
    /\ FoundClips
    /\ tree.fault[1] \in {"subs", "clips"}
    /\ \E n \in DOMAIN found.map :
          /\ tree.fault[2] < tree.clips[found.map[n]].folder
          /\ tree.fault[2] # 1
          /\ tree.parent[tree.fault[2]] = tree.parent[tree.clips[found.map[n]].folder]

\* C16: no exception leaves find_folder_by_name, find_clips_by_name or
\* list_all_clip_names.
C16_ResolverNeverRaises ==
    found.op # "none" => ~found.folder.raised

\* The media pool with its listings returned in the shape r.
InShape(r) == [tree EXCEPT !.rep = r]

\* C17: find_folder_by_name and find_clips_by_name give the same result on a
\* media pool that returns its listings as sequences and on the same media
\* pool returning them as integer-keyed mappings in the same order.
C17_RepresentationIndependent ==
    /\ FoundFolder =>
          /\ found.folder = FindFolderByName(InShape("list"), found.name, found.start)
          /\ found.folder = FindFolderByName(InShape("dict"), found.name, found.start)
    /\ FoundClips =>
          /\ found.map = FindClipsByName(InShape("list"), found.clip_names, found.start)
          /\ found.map = FindClipsByName(InShape("dict"), found.clip_names, found.start)

\* Listings are mappings, and a clip in a subfolder was found.
C17_Witness ==
    /\ FoundClips /\ tree.rep = "dict"
    /\ \E n \in DOMAIN found.map : tree.clips[found.map[n]].folder # FromFolder

----------------------------------------------------------------------------
(* Claims about the server, under SpecServer, and about hot reload.        *)

Tools == {"get_timeline_items_resource", "refresh_tool", "hot_reload_tool", "open_page",
          "add_track", "delete_timeline"}

\* C18: a tool or resource invoked while no application handle is held
\* answers "Not connected to DaVinci Resolve." and makes no call onto the
\* application, no connection attempt either.
C18_DisconnectedShortCircuits ==
    (last.op \in Tools /\ pre.resolve = 0)
    => /\ ~last.raised
       /\ last.text = NotConnected
       /\ last.nConnect = 0
       /\ last.nRefresh = 0

\* C19: no exception leaves a tool or a resource.
C19_ToolsNeverRaise ==
    last.op \in Tools => ~last.raised

\* C20: a hot reload that succeeds with an application handle held keeps
\* that handle, and every dependent handle of the session is one that
\* refresh() derived after the reload, or null: none is carried over.
C20_HotReloadKeepsApplicationOnly ==
    (last.op = "hot_reload" /\ last.ret = 1 /\ pre.resolve # 0)
    => /\ sess.resolve = pre.resolve
       /\ last.written = AllDeps
       /\ last.nRefresh = 1
       /\ sess.current_project \in {0, ext.curProj}
       /\ sess.media_pool \in {0, ext.curProj}
       /\ sess.project_manager = (IF Mode(ext, "pm") = "ok" THEN 1 ELSE 0)
       /\ sess.media_storage = (IF Mode(ext, "ms") = "ok" THEN 1 ELSE 0)
       /\ sess.fusion = (IF Mode(ext, "fu") = "ok" THEN 1 ELSE 0)

\* The reload succeeded on a session whose project and media-pool handles
\* were stale, and the session now holds the handles of the open project.
C20_Witness ==
    /\ last.op = "hot_reload" /\ last.ret = 1 /\ pre.resolve # 0
    /\ pre.current_project \notin {0, ext.curProj}
    /\ pre.media_pool \notin {0, ext.curProj}
    /\ sess.current_project = ext.curProj
    /\ ext.curProj # 0

----------------------------------------------------------------------------
(* Claims about the operations of the session, under Spec.                 *)

\* The media-pool handle held when the last operation started was stale.
PoolStaleAtStart == pre.media_pool # 0 /\ ~ProbeMediaPool(pre.media_pool, ext)

\* C22: add_items_to_media_pool and create_timeline act on a validated
\* handle: a call made on the media pool is made on a handle whose probe
\* succeeds, and when the handle held at the start is stale the operation
\* refreshes once and then acts on the re-derived handle or reports that
\* the media pool is unavailable.
C22_ActsOnValidatedHandle ==
    (last.op \in {"add_items_to_media_pool", "create_timeline"})
    => /\ last.used # 0 => ProbeMediaPool(last.used, ext)
       /\ PoolStaleAtStart
             => /\ ~last.raised
                /\ last.nRefresh = 1
                /\ last.used \in {0, sess.media_pool}

\* The outcomes of SaveProject() that count as a failed attempt.
SaveFailed == {"false", "raise"}

\* C24: save_project calls SaveProject at most twice, the second time only
\* after a first attempt that raised or returned False and a refresh that
\* completed; when it returns, it returns True exactly when one of its
\* attempts neither raised nor returned False; it returns False without
\* raising when both attempts fail or no project is held after the refresh.
C24_SaveRetriesOnce ==
    (last.op = "save_project")
    => /\ Len(last.tries) <= 2
       /\ Len(last.tries) = 2
             => /\ last.tries[1] \in SaveFailed
                /\ last.nRefresh >= 1
                /\ last.written = AllDeps
       /\ ~last.raised
             => (last.ret = 1 <=> \E i \in 1..Len(last.tries) : last.tries[i] \notin SaveFailed)
       /\ (Len(last.tries) = 2 /\ last.tries[2] \in SaveFailed)
             => (~last.raised /\ last.ret = 0)
       /\ (Len(last.tries) = 1 /\ last.tries[1] \in SaveFailed /\ sess.current_project = 0)
             => (~last.raised /\ last.ret = 0)

\* The first attempt raised, the second returned None: True is returned.
C24_Witness ==
    /\ last.op = "save_project"
    /\ last.tries = <<"raise", "none">>
    /\ last.ret = 1

\* C26: a media-pool handle held is the pool of the current-project handle
\* held, and a current-project handle is held only together with a
\* project-manager handle.
C26_HandleChainConsistent ==
    /\ sess.media_pool # 0 => sess.media_pool = sess.current_project
    /\ sess.current_project # 0 => sess.project_manager # 0

----------------------------------------------------------------------------
(* Claims about build_timeline_from_json, under SpecBuild.                 *)

\* The build reached its loops over the clip list.
Built == last.op = "build_timeline_from_json" /\ built.entered

\* The entries of the clip list, and those a call of the kind was made for.
EntryNumbers == 1..Len(built.clips)
CallsOf(kind) == {j \in 1..Len(built.calls) : built.calls[j][1] = kind}

C23_PlaceholdersBeforeClips ==
    (last.op = "build_timeline_from_json")
    => \A j \in CallsOf("append") : \A k \in CallsOf("fusion") : k < j

\* The clip list has a media clip before a placeholder, and both were placed:
\* the placeholder first.
C23_Witness ==
    /\ Built /\ built.insert_fusion_comp
    /\ built.calls = <<<<"fusion", 2>>, <<"append", 1>>>>

\* C29: a build that reports its results has every entry of the clip list
\* exactly once in results or in skipped.
C29_EveryEntryAccounted ==
    (Built /\ ~last.raised)
    => /\ Len(built.results) + Len(built.skipped) = Len(built.clips)
       /\ \A i \in EntryNumbers :
             Cardinality({j \in 1..Len(built.results) : built.results[j] = i})
               + Cardinality({j \in 1..Len(built.skipped) : built.skipped[j] = i}) = 1

----------------------------------------------------------------------------
(* Claims about set_playhead_position, under SpecPlayhead.                 *)

\* The timecodes computed from the frame number in the last call.
Fallbacks == {i \in 1..Len(head.set) : head.set[i].path = "fallback"}

\* C25: a timecode computed from a frame number f0 >= 0 at a frame rate
\* fps_int >= 1 has fields h, m, s, f with
\* ((h*60 + m)*60 + s)*fps_int + f = f0, 0 <= m < 60, 0 <= s < 60 and
\* 0 <= f < fps_int; and one is computed only when GetTimecodeFromFrame is
\* missing, gave nothing, or gave a timecode SetCurrentTimecode refused.
C25_FallbackTimecodeFaithful ==
    \A i \in Fallbacks :
       /\ head.fps >= 1
       /\ ((head.set[i].tc[1] * 60 + head.set[i].tc[2]) * 60 + head.set[i].tc[3]) * head.fps
            + head.set[i].tc[4] = head.frame
       /\ head.set[i].tc[1] >= 0
       /\ head.set[i].tc[2] \in 0..59
       /\ head.set[i].tc[3] \in 0..59
       /\ head.set[i].tc[4] \in 0..(head.fps - 1)
       /\ head.native \in {"absent", "none", "refused"}
       /\ head.native = "refused" <=> i = 2

\* A frame past the first hour at one frame per second, after
\* SetCurrentTimecode refused the timecode GetTimecodeFromFrame gave: the
\* hours, minutes and seconds are all positive.
C25_Witness ==
    /\ head.native = "refused"
    /\ head.ret
    /\ \E i \in Fallbacks : \A k \in 1..3 : head.set[i].tc[k] >= 1

----------------------------------------------------------------------------
(* Claims about the application handle, under SpecServer.                  *)

\* The tools other than hot_reload.
OtherTools == {"refresh_tool", "open_page", "add_track", "delete_timeline"}

\* C27: a tool other than hot_reload that is invoked on a disconnected
\* session returns before any refresh or connection attempt, and the session
\* is still disconnected afterwards.
C27_DisconnectedStaysDisconnected ==
    (pre.resolve = 0 /\ last.op \in OtherTools)
    => /\ sess.resolve = 0
       /\ last.nRefresh = 0
       /\ last.nConnect = 0
       /\ ~last.raised

\* The refresh tool was invoked on a disconnected session while the
\* application could be reached: a refresh would have connected.
C27_Witness ==
    /\ last.op = "refresh_tool"
    /\ pre.resolve = 0
    /\ sess.resolve = 0
    /\ FindScriptingModule(ext)
    /\ Mode(ext, "conn") = "ok"

\* C28: an operation on a session that holds an application handle makes no
\* connection attempt and leaves that handle in place.
C28_ApplicationHandleKept ==
    (pre.resolve # 0 /\ last.op # "none")
    => /\ sess.resolve = pre.resolve
       /\ last.nConnect = 0

\* A refresh, a reload and a tool that recovers its handles each ran on a
\* connected session while the application could not be reached.
C28_Witness ==
    /\ last.op \in {"refresh_tool", "hot_reload_tool", "add_track"}
    /\ last.nRefresh >= 1
    /\ pre.resolve # 0
    /\ sess.resolve # 0
    /\ Mode(ext, "conn") # "ok"

----------------------------------------------------------------------------
(* Claims about the two resolvers of a clip name, under SpecResolver.      *)

\* What find_clips_by_name([n]) from the pool root gives for the name the
\* server looked up.
ByName == FindClipsByName(tree, <<found.name>>, 0)

\* C30: for every folder tree and every name n, _find_media_pool_clip(n) and
\* find_clips_by_name([n]) from the pool root either both find nothing or
\* both resolve n to the same clip.
C30_ResolversAgree ==
    (found.op = "_find_media_pool_clip" /\ tree.fault = NoFault)
    => /\ ~found.clip.raised
       /\ IF found.name \in DOMAIN ByName
          THEN found.clip.ret = ByName[found.name]
          ELSE found.clip.ret = 0

====
